---- MODULE Spec2Model ----
(***************************************************************************)
(* Model of the personality estimator (services/personality_service.py,    *)
(* services/supabase_service.py) and of the semantic memory                *)
(* (services/memory_service.py) of ai-buddy-backend.                       *)
(*                                                                         *)
(* Numbers.  The Python code computes with floats; the model computes with *)
(* exact rationals <<n, d>> (d > 0, lowest terms), so 0.1 is 1/10 and the  *)
(* rounding of binary floating point is not represented.                   *)
(*                                                                         *)
(* Time and identifiers.  datetime.now() is a clock `now` that every       *)
(* handler advances by one; uuid.uuid4() is a counter of fresh values.     *)
(***************************************************************************)
EXTENDS Integers, Sequences, FiniteSets, TLC

VARIABLES
    profiles,       \* table personality_profiles: user_id -> row
    collection,     \* ChromaDB collection "chat_memory": records in insertion order
    collection_ok,  \* self.collection is not None
    now,            \* the clock read by datetime.now(timezone.utc)
    nextUuid,       \* number of the next uuid.uuid4()
    call,           \* the most recent request and what its collaborators did
    ret,            \* the value that request returned
    requests        \* update calls taken step by step: what each holds locally

vars == <<profiles, collection, collection_ok, now, nextUuid, call, ret, requests>>

(***************************************************************************)
(* Bounds                                                                  *)
(***************************************************************************)
MaxClock == 3          \* requests per run of Spec and SpecMemory
MaxLongClock == 52     \* requests per run of SpecLong

Owners == {"A", "B"}

(***************************************************************************)
(* Exact rational arithmetic                                               *)
(***************************************************************************)
Abs(n) == IF n < 0 THEN 0 - n ELSE n

RECURSIVE GCD(_, _)
GCD(a, b) == IF b = 0 THEN a ELSE GCD(b, a % b)

R(n, d) ==
    LET s == IF d < 0 THEN 0 - 1 ELSE 1
        g == GCD(Abs(n), Abs(d))
    IN  <<(s * n) \div g, (s * d) \div g>>

\* sums over the least common denominator and products after cancelling, so
\* that no intermediate value is larger than the result needs
RAdd(x, y) ==
    LET g == GCD(x[2], y[2])
    IN  R(x[1] * (y[2] \div g) + y[1] * (x[2] \div g), (x[2] \div g) * y[2])
RMul(x, y) ==
    LET g1 == GCD(Abs(x[1]), y[2])
        g2 == GCD(Abs(y[1]), x[2])
    IN  R((x[1] \div g1) * (y[1] \div g2), (x[2] \div g2) * (y[2] \div g1))
RDiv(x, y) == RMul(x, IF y[1] < 0 THEN <<0 - y[2], 0 - y[1]>> ELSE <<y[2], y[1]>>)
RLt(x, y) == x[1] * y[2] < y[1] * x[2]
RLe(x, y) == x[1] * y[2] <= y[1] * x[2]
\* Python min(a, b) is b when b < a, else a; max(a, b) is b when b > a, else a
RMin(x, y) == IF RLt(y, x) THEN y ELSE x
RMax(x, y) == IF RLt(x, y) THEN y ELSE x
RInt(n) == <<n, 1>>

Zero == <<0, 1>>
One == <<1, 1>>
Half == <<1, 2>>
Tenth == <<1, 10>>

\* dict.get(key, default)
Get(d, key, default) == IF key \in DOMAIN d THEN d[key] ELSE default

EmptyDict == << >>

(***************************************************************************)
(* services/personality_service.py                                         *)
(***************************************************************************)
dimensions == <<"extroversion", "sensing", "thinking", "judging">>
Dims == {dimensions[i] : i \in 1..Len(dimensions)}

\* f"{dim}_score" and f"{dim}_confidence"
ScoreKey(dim) ==
    CASE dim = "extroversion" -> "extroversion_score"
      [] dim = "sensing" -> "sensing_score"
      [] dim = "thinking" -> "thinking_score"
      [] dim = "judging" -> "judging_score"

ConfidenceKey(dim) ==
    CASE dim = "extroversion" -> "extroversion_confidence"
      [] dim = "sensing" -> "sensing_confidence"
      [] dim = "thinking" -> "thinking_confidence"
      [] dim = "judging" -> "judging_confidence"

EvidenceCap == <<1, 2>>
LogCap == 50
SummaryCap == 500

EvidenceWeight(evidence_strength) ==
    RMin(RMul(RInt(evidence_strength), Tenth), EvidenceCap)

ConfidenceStep(current_confidence, evidence_weight) ==
    RMin(RAdd(current_confidence, RMul(evidence_weight, Tenth)), One)

\* a clamp that forgets the lower end
ClampScoreNoFloor(updated_score) == RMin(One, updated_score)

ClampScore(updated_score) == RMax(Zero, RMin(One, updated_score))

\* a prior weight that forgets the number of sessions
PriorWeightNoSessions(current_confidence, sessions_analyzed) ==
    RMul(current_confidence, Tenth)

PriorWeight(current_confidence, sessions_analyzed) ==
    RMul(RMul(current_confidence, RInt(sessions_analyzed)), Tenth)

BayesianDim(profile, evidence, dim) ==
    LET current_score == Get(profile, ScoreKey(dim), Half)
        current_confidence == Get(profile, ConfidenceKey(dim), Zero)
        sessions_analyzed == Get(profile, "sessions_analyzed", 0)
        dim_evidence == Get(evidence, dim, EmptyDict)
        new_evidence_score == Get(dim_evidence, "score", Half)
        evidence_strength == Len(Get(dim_evidence, "evidence", << >>))
        evidence_weight == EvidenceWeight(evidence_strength)
        prior_weight == PriorWeight(current_confidence, sessions_analyzed)
        total_weight == RAdd(prior_weight, evidence_weight)
        updated_score ==
            IF RLt(Zero, total_weight)
            THEN RDiv(RAdd(RMul(current_score, prior_weight),
                           RMul(new_evidence_score, evidence_weight)),
                      total_weight)
            ELSE current_score
        updated_confidence ==
            IF RLt(Zero, total_weight)
            THEN ConfidenceStep(current_confidence, evidence_weight)
            ELSE current_confidence
    IN  [score |-> ClampScore(updated_score), confidence |-> updated_confidence]

BayesianUpdate(profile, evidence) ==
    [dim \in Dims |-> BayesianDim(profile, evidence, dim)]

\* a classifier whose tie at the midpoint goes to the high pole
LetterTieHigh(score, high, low) == IF RLe(Half, score) THEN high ELSE low

Letter(score, high, low) == IF RLt(Half, score) THEN high ELSE low

\* the four letters of the type, in order; f"{e_or_i}{s_or_n}{t_or_f}{j_or_p}"
CalculateMbtiType(profile) ==
    << Letter(Get(profile, "extroversion_score", Half), "E", "I"),
       Letter(Get(profile, "sensing_score", Half), "S", "N"),
       Letter(Get(profile, "thinking_score", Half), "T", "F"),
       Letter(Get(profile, "judging_score", Half), "J", "P") >>

\* models/database.py calculate_mbti_type(scores): the same rule on a dict
\* keyed by dimension
DatabaseCalculateMbtiType(scores) ==
    << Letter(Get(scores, "extroversion", Half), "E", "I"),
       Letter(Get(scores, "sensing", Half), "S", "N"),
       Letter(Get(scores, "thinking", Half), "T", "F"),
       Letter(Get(scores, "judging", Half), "J", "P") >>

\* session_summary[:500]; a summary is a text identity with its length
Truncate(summary) ==
    [text |-> summary.text,
     len |-> IF summary.len > SummaryCap THEN SummaryCap ELSE summary.len]

LastN(s, n) == IF Len(s) > n THEN SubSeq(s, Len(s) - n + 1, Len(s)) ELSE s

\* a log that drops the newest entries instead of the oldest
AddEvidenceToLogKeepOldest(evidence_log, evidence, session_summary, t) ==
    LET evidence_entry == [timestamp |-> t,
                           session_summary |-> Truncate(session_summary),
                           evidence |-> evidence]
        appended == Append(evidence_log, evidence_entry)
    IN  IF Len(appended) > LogCap THEN SubSeq(appended, 1, LogCap) ELSE appended

AddEvidenceToLog(evidence_log, evidence, session_summary, t) ==
    LET evidence_entry == [timestamp |-> t,
                           session_summary |-> Truncate(session_summary),
                           evidence |-> evidence]
        appended == Append(evidence_log, evidence_entry)
    IN  IF Len(appended) > LogCap THEN LastN(appended, LogCap) ELSE appended

CalculateOverallConfidence(profile) ==
    LET avg_confidence ==
            RDiv(RAdd(RAdd(Get(profile, "extroversion_confidence", Zero),
                           Get(profile, "sensing_confidence", Zero)),
                      RAdd(Get(profile, "thinking_confidence", Zero),
                           Get(profile, "judging_confidence", Zero))),
                 RInt(4))
        sessions_analyzed == Get(profile, "sessions_analyzed", 0)
        session_multiplier == RMin(RDiv(RInt(sessions_analyzed), RInt(10)), One)
    IN  RMin(RMul(avg_confidence, session_multiplier), One)

\* summary_service.extract_personality_evidence: the parsed answer of the
\* language model, or the neutral fallback when anything raised
FallbackEvidence ==
    [extroversion |-> [evidence |-> << >>, score |-> Half],
     sensing |-> [evidence |-> << >>, score |-> Half],
     thinking |-> [evidence |-> << >>, score |-> Half],
     judging |-> [evidence |-> << >>, score |-> Half]]

ExtractPersonalityEvidence(outcome) ==
    IF outcome.ok THEN outcome.evidence ELSE FallbackEvidence

(***************************************************************************)
(* services/supabase_service.py                                            *)
(***************************************************************************)
\* a new row that already counts one session
NewProfileCounted(user_id, id, t) ==
    [id |-> id,
     user_id |-> user_id,
     extroversion_score |-> Half,
     sensing_score |-> Half,
     thinking_score |-> Half,
     judging_score |-> Half,
     overall_confidence |-> Zero,
     extroversion_confidence |-> Zero,
     sensing_confidence |-> Zero,
     thinking_confidence |-> Zero,
     judging_confidence |-> Zero,
     evidence_log |-> << >>,
     sessions_analyzed |-> 1,
     created_at |-> t,
     updated_at |-> t]

NewProfile(user_id, id, t) ==
    [id |-> id,
     user_id |-> user_id,
     extroversion_score |-> Half,
     sensing_score |-> Half,
     thinking_score |-> Half,
     judging_score |-> Half,
     overall_confidence |-> Zero,
     extroversion_confidence |-> Zero,
     sensing_confidence |-> Zero,
     thinking_confidence |-> Zero,
     judging_confidence |-> Zero,
     evidence_log |-> << >>,
     sessions_analyzed |-> 0,
     created_at |-> t,
     updated_at |-> t]

\* a load whose failure still hands back the stored row
GetOrCreatePersonalityProfileLenient(table, user_id, load_ok, id, t) ==
    IF user_id \in DOMAIN table
    THEN [profile |-> table[user_id], table |-> table, created |-> FALSE]
    ELSE IF ~load_ok
    THEN [profile |-> EmptyDict, table |-> table, created |-> FALSE]
    ELSE [profile |-> NewProfile(user_id, id, t),
          table |-> (user_id :> NewProfile(user_id, id, t)) @@ table,
          created |-> TRUE]

\* the row returned and the table afterwards; load_ok = FALSE is the except
\* branch (the client raised), which returns {}
GetOrCreatePersonalityProfile(table, user_id, load_ok, id, t) ==
    IF ~load_ok
    THEN [profile |-> EmptyDict, table |-> table, created |-> FALSE]
    ELSE IF user_id \in DOMAIN table
    THEN [profile |-> table[user_id], table |-> table, created |-> FALSE]
    ELSE [profile |-> NewProfile(user_id, id, t),
          table |-> (user_id :> NewProfile(user_id, id, t)) @@ table,
          created |-> TRUE]

\* table.update(profile_data).eq('user_id', user_id): the columns given
\* replace those of the matching row, if there is one
MergeRow(row, profile_data) ==
    [k \in DOMAIN row |-> IF k \in DOMAIN profile_data THEN profile_data[k] ELSE row[k]]

\* an update without the user_id filter: every row takes the columns
UpdatePersonalityProfileAllRows(table, user_id, profile_data, save_ok, t) ==
    IF save_ok
    THEN [owner \in DOMAIN table |->
             MergeRow(table[owner], ("updated_at" :> t) @@ profile_data)]
    ELSE table

UpdatePersonalityProfile(table, user_id, profile_data, save_ok, t) ==
    IF save_ok /\ user_id \in DOMAIN table
    THEN [table EXCEPT ![user_id] = MergeRow(@, ("updated_at" :> t) @@ profile_data)]
    ELSE table

\* a lookup that forgets the user_id filter and answers with any stored row
GetPersonalityProfileAnyRow(table, user_id, load_ok) ==
    IF load_ok /\ DOMAIN table # {}
    THEN table[CHOOSE owner \in DOMAIN table : TRUE]
    ELSE EmptyDict

\* get_personality_profile: the row, or None (modelled as the empty dict, which
\* the callers treat alike); load_ok = FALSE is the except branch
GetPersonalityProfile(table, user_id, load_ok) ==
    IF load_ok /\ user_id \in DOMAIN table THEN table[user_id] ELSE EmptyDict

(***************************************************************************)
(* PersonalityService.update_personality_from_session                      *)
(***************************************************************************)
\* an update that derives the overall confidence from the profile it loaded
UpdatedProfileStaleOverall(profile, evidence, session_summary, t) ==
    LET updated_scores == BayesianUpdate(profile, evidence)
        base ==
            [extroversion_score |-> updated_scores["extroversion"].score,
             sensing_score |-> updated_scores["sensing"].score,
             thinking_score |-> updated_scores["thinking"].score,
             judging_score |-> updated_scores["judging"].score,
             extroversion_confidence |-> updated_scores["extroversion"].confidence,
             sensing_confidence |-> updated_scores["sensing"].confidence,
             thinking_confidence |-> updated_scores["thinking"].confidence,
             judging_confidence |-> updated_scores["judging"].confidence,
             sessions_analyzed |-> Get(profile, "sessions_analyzed", 0) + 1,
             evidence_log |-> AddEvidenceToLog(Get(profile, "evidence_log", << >>),
                                               evidence, session_summary, t)]
    IN  ("overall_confidence" :> CalculateOverallConfidence(profile)) @@ base

UpdatedProfile(profile, evidence, session_summary, t) ==
    LET updated_scores == BayesianUpdate(profile, evidence)
        base ==
            [extroversion_score |-> updated_scores["extroversion"].score,
             sensing_score |-> updated_scores["sensing"].score,
             thinking_score |-> updated_scores["thinking"].score,
             judging_score |-> updated_scores["judging"].score,
             extroversion_confidence |-> updated_scores["extroversion"].confidence,
             sensing_confidence |-> updated_scores["sensing"].confidence,
             thinking_confidence |-> updated_scores["thinking"].confidence,
             judging_confidence |-> updated_scores["judging"].confidence,
             sessions_analyzed |-> Get(profile, "sessions_analyzed", 0) + 1,
             evidence_log |-> AddEvidenceToLog(Get(profile, "evidence_log", << >>),
                                               evidence, session_summary, t)]
    IN  ("overall_confidence" :> CalculateOverallConfidence(base)) @@ base

\* a result that reports the counter as it was loaded
SnapshotUncounted(updated_profile) ==
    [mbti_type |-> CalculateMbtiType(updated_profile),
     scores |-> [extroversion |-> updated_profile.extroversion_score,
                 sensing |-> updated_profile.sensing_score,
                 thinking |-> updated_profile.thinking_score,
                 judging |-> updated_profile.judging_score],
     confidence |-> [overall |-> updated_profile.overall_confidence,
                     extroversion |-> updated_profile.extroversion_confidence,
                     sensing |-> updated_profile.sensing_confidence,
                     thinking |-> updated_profile.thinking_confidence,
                     judging |-> updated_profile.judging_confidence],
     sessions_analyzed |-> updated_profile.sessions_analyzed - 1]

Snapshot(updated_profile) ==
    [mbti_type |-> CalculateMbtiType(updated_profile),
     scores |-> [extroversion |-> updated_profile.extroversion_score,
                 sensing |-> updated_profile.sensing_score,
                 thinking |-> updated_profile.thinking_score,
                 judging |-> updated_profile.judging_score],
     confidence |-> [overall |-> updated_profile.overall_confidence,
                     extroversion |-> updated_profile.extroversion_confidence,
                     sensing |-> updated_profile.sensing_confidence,
                     thinking |-> updated_profile.thinking_confidence,
                     judging |-> updated_profile.judging_confidence],
     sessions_analyzed |-> updated_profile.sessions_analyzed]

UpdatePersonalityFromSession(user_id, session, load_ok, save_ok) ==
    LET t == now + 1
        evidence == ExtractPersonalityEvidence(session.extractor)
        got == GetOrCreatePersonalityProfile(profiles, user_id, load_ok, nextUuid, t)
        updated_profile == UpdatedProfile(got.profile, evidence, session.summary, t)
    IN  /\ profiles' = UpdatePersonalityProfile(got.table, user_id, updated_profile, save_ok, t)
        /\ nextUuid' = IF got.created THEN nextUuid + 1 ELSE nextUuid
        /\ now' = t
        /\ call' = [op |-> "update_personality_from_session",
                    user_id |-> user_id,
                    session |-> session,
                    evidence |-> evidence,
                    load_ok |-> load_ok,
                    save_ok |-> save_ok]
        /\ ret' = Snapshot(updated_profile)
        /\ UNCHANGED <<collection, collection_ok, requests>>

(***************************************************************************)
(* PersonalityService.get_personality_insights and its route               *)
(***************************************************************************)
TypeDescriptions ==
    << [type |-> <<"E", "N", "T", "J">>, description |-> "The Commander"],
       [type |-> <<"E", "N", "T", "P">>, description |-> "The Debater"],
       [type |-> <<"E", "N", "F", "J">>, description |-> "The Protagonist"],
       [type |-> <<"E", "N", "F", "P">>, description |-> "The Campaigner"],
       [type |-> <<"E", "S", "T", "J">>, description |-> "The Executive"],
       [type |-> <<"E", "S", "T", "P">>, description |-> "The Entrepreneur"],
       [type |-> <<"E", "S", "F", "J">>, description |-> "The Consul"],
       [type |-> <<"E", "S", "F", "P">>, description |-> "The Entertainer"],
       [type |-> <<"I", "N", "T", "J">>, description |-> "The Architect"],
       [type |-> <<"I", "N", "T", "P">>, description |-> "The Thinker"],
       [type |-> <<"I", "N", "F", "J">>, description |-> "The Advocate"],
       [type |-> <<"I", "N", "F", "P">>, description |-> "The Mediator"],
       [type |-> <<"I", "S", "T", "J">>, description |-> "The Logistician"],
       [type |-> <<"I", "S", "T", "P">>, description |-> "The Virtuoso"],
       [type |-> <<"I", "S", "F", "J">>, description |-> "The Protector"],
       [type |-> <<"I", "S", "F", "P">>, description |-> "The Adventurer"] >>

\* descriptions.get(mbti_type, 'Unknown personality type')
GetTypeDescription(mbti_type) ==
    IF \E i \in 1..Len(TypeDescriptions) : TypeDescriptions[i].type = mbti_type
    THEN TypeDescriptions[CHOOSE i \in 1..Len(TypeDescriptions) :
                              TypeDescriptions[i].type = mbti_type].description
    ELSE "Unknown personality type"

GenerateFacetBars(profile) ==
    << [dimension |-> "Energy", left_label |-> "Introversion", right_label |-> "Extraversion",
        score |-> Get(profile, "extroversion_score", Half),
        confidence |-> Get(profile, "extroversion_confidence", Zero)],
       [dimension |-> "Information", left_label |-> "Intuition", right_label |-> "Sensing",
        score |-> Get(profile, "sensing_score", Half),
        confidence |-> Get(profile, "sensing_confidence", Zero)],
       [dimension |-> "Decisions", left_label |-> "Feeling", right_label |-> "Thinking",
        score |-> Get(profile, "thinking_score", Half),
        confidence |-> Get(profile, "thinking_confidence", Zero)],
       [dimension |-> "Structure", left_label |-> "Perceiving", right_label |-> "Judging",
        score |-> Get(profile, "judging_score", Half),
        confidence |-> Get(profile, "judging_confidence", Zero)] >>

RecentEvidence == 5

\* the insights of the service, or None (the empty dict) when there is no row
\* or the lookup failed
PersonalityInsights(table, user_id, load_ok) ==
    LET profile == GetPersonalityProfile(table, user_id, load_ok)
        mbti_type == CalculateMbtiType(profile)
    IN  IF profile = EmptyDict THEN EmptyDict
        ELSE [mbti_type |-> mbti_type,
              type_description |-> GetTypeDescription(mbti_type),
              scores |-> [extroversion |-> Get(profile, "extroversion_score", Half),
                          sensing |-> Get(profile, "sensing_score", Half),
                          thinking |-> Get(profile, "thinking_score", Half),
                          judging |-> Get(profile, "judging_score", Half)],
              confidence |-> [overall |-> Get(profile, "overall_confidence", Zero),
                              extroversion |-> Get(profile, "extroversion_confidence", Zero),
                              sensing |-> Get(profile, "sensing_confidence", Zero),
                              thinking |-> Get(profile, "thinking_confidence", Zero),
                              judging |-> Get(profile, "judging_confidence", Zero)],
              facet_bars |-> GenerateFacetBars(profile),
              sessions_analyzed |-> Get(profile, "sessions_analyzed", 0),
              recent_evidence |-> LastN(Get(profile, "evidence_log", << >>), RecentEvidence),
              created_at |-> profile.created_at,
              updated_at |-> profile.updated_at]

\* the body the route sends when the service has no insights
DefaultInsights(user_id, t) ==
    [user_id |-> user_id,
     mbti_type |-> <<"X", "X", "X", "X">>,
     type_description |-> "Personality type not yet determined",
     confidence_score |-> Zero,
     trait_scores |-> [extraversion |-> Half, intuition |-> Half,
                       thinking |-> Half, judging |-> Half],
     sessions_analyzed |-> 0,
     last_updated |-> t]

\* GET /personality/<user_id>: what the service returned and what the route
\* answers; nothing is written
GetPersonalityInsights(user_id, load_ok) ==
    LET t == now + 1
        insights == PersonalityInsights(profiles, user_id, load_ok)
    IN  /\ now' = t
        /\ call' = [op |-> "get_personality_insights", user_id |-> user_id,
                    load_ok |-> load_ok]
        /\ ret' = [insights |-> insights,
                   body |-> IF insights = EmptyDict
                            THEN DefaultInsights(user_id, t)
                            ELSE insights]
        /\ UNCHANGED <<profiles, nextUuid, collection, collection_ok, requests>>

(***************************************************************************)
(* services/memory_service.py                                              *)
(*                                                                         *)
(* A text is embedded at a point of a line, in tenths; an embedding is its *)
(* length and its point, and the distance of the index is the squared      *)
(* Euclidean distance, ChromaDB's default.                                 *)
(***************************************************************************)
EmbeddingDimension == 1536

Coord ==
    [great_day |-> 0, so_sad |-> 4, so_worried |-> 8, calm_now |-> 12,
     i_feel_happy |-> 1, i_feel_sad |-> 5, i_feel_angry |-> 6,
     i_feel_excited |-> 0, i_feel_worried |-> 8, i_feel_anxious |-> 9,
     i_feel_grateful |-> 2, i_feel_frustrated |-> 7, i_feel_peaceful |-> 12,
     i_feel_stressed |-> 10, i_feel_joyful |-> 1, i_feel_lonely |-> 3]

\* what openai_client.embeddings.create can do for a text: raise, or answer
\* with a vector of the model's size, or with one of another size
EmbeddingResponses(text) ==
    { [raised |-> TRUE, embedding |-> [len |-> 0, at |-> 0]],
      [raised |-> FALSE, embedding |-> [len |-> EmbeddingDimension, at |-> Coord[text]]],
      [raised |-> FALSE, embedding |-> [len |-> EmbeddingDimension - 1, at |-> Coord[text]]] }

\* an embedding generator that does not verify the dimension
GenerateEmbeddingUnchecked(response) ==
    IF response.raised
    THEN [raised |-> TRUE, embedding |-> response.embedding]
    ELSE [raised |-> FALSE, embedding |-> response.embedding]

\* _generate_embedding: the vector, or an exception
GenerateEmbedding(response) ==
    IF response.raised
    THEN [raised |-> TRUE, embedding |-> response.embedding]
    ELSE IF response.embedding.len # EmbeddingDimension
    THEN [raised |-> TRUE, embedding |-> response.embedding]
    ELSE [raised |-> FALSE, embedding |-> response.embedding]

\* _save_to_database: only logs
SaveToDatabase(user_id, message, message_id) == TRUE

\* a failed add that loses the newest record of the collection
SaveToChromaLossy(coll, available, user_id, message, message_id, embedding, t, add_ok) ==
    IF ~available THEN [saved |-> FALSE, collection |-> coll]
    ELSE IF ~add_ok THEN [saved |-> FALSE, collection |-> SubSeq(coll, 1, Len(coll) - 1)]
    ELSE [saved |-> TRUE,
          collection |-> Append(coll, [id |-> message_id,
                                       document |-> message,
                                       embedding |-> embedding,
                                       metadata |-> [user_id |-> user_id,
                                                     message_id |-> message_id,
                                                     created_at |-> t]])]

\* _save_to_chroma: the collection afterwards and the value returned;
\* add_ok = FALSE is collection.add raising
SaveToChroma(coll, available, user_id, message, message_id, embedding, t, add_ok) ==
    IF ~available THEN [saved |-> FALSE, collection |-> coll]
    ELSE IF ~add_ok THEN [saved |-> FALSE, collection |-> coll]
    ELSE [saved |-> TRUE,
          collection |-> Append(coll, [id |-> message_id,
                                       document |-> message,
                                       embedding |-> embedding,
                                       metadata |-> [user_id |-> user_id,
                                                     message_id |-> message_id,
                                                     created_at |-> t]])]

StoreMessage(user_id, message, response, add_ok) ==
    LET t == now + 1
        message_id == nextUuid
        generated == GenerateEmbedding(response)
        database_success == SaveToDatabase(user_id, message, message_id)
        chroma == SaveToChroma(collection, collection_ok, user_id, message,
                               message_id, generated.embedding, t, add_ok)
        success == database_success /\ chroma.saved
    IN  /\ nextUuid' = nextUuid + 1
        /\ now' = t
        /\ call' = [op |-> "store_message", user_id |-> user_id, message |-> message,
                    response |-> response, add_ok |-> add_ok]
        /\ IF generated.raised
           THEN /\ collection' = collection
                /\ ret' = [success |-> FALSE, error |-> "Failed to generate embedding",
                           user_id |-> user_id, timestamp |-> t]
           ELSE /\ collection' = chroma.collection
                /\ ret' = [success |-> success,
                           message_id |-> message_id,
                           user_id |-> user_id,
                           database_saved |-> database_success,
                           chroma_saved |-> chroma.saved,
                           embedding_dimension |-> generated.embedding.len,
                           timestamp |-> t]
        /\ UNCHANGED <<profiles, collection_ok, requests>>

\* a distance that is never zero
DistanceNeverZero(e1, e2) == R((e1.at - e2.at) * (e1.at - e2.at) + 1, 100)

Distance(e1, e2) == R((e1.at - e2.at) * (e1.at - e2.at), 100)

Reverse(s) == [i \in 1..Len(s) |-> s[Len(s) + 1 - i]]
Remove(s, i) == SubSeq(s, 1, i - 1) \o SubSeq(s, i + 1, Len(s))
Take(s, n) == IF Len(s) > n THEN SubSeq(s, 1, n) ELSE s

\* stable sort of hits by ascending distance
RECURSIVE SortByDistance(_)
SortByDistance(s) ==
    IF Len(s) <= 1 THEN s
    ELSE LET m == CHOOSE i \in 1..Len(s) :
                     \A j \in 1..Len(s) :
                         /\ j < i => RLt(s[i].distance, s[j].distance)
                         /\ j > i => RLe(s[i].distance, s[j].distance)
         IN  <<s[m]>> \o SortByDistance(Remove(s, m))

\* a filter that lets every record through
MatchesWhereAny(record, user_id) == TRUE

\* where={"user_id": user_id}
MatchesWhere(record, user_id) == record.metadata.user_id = user_id

\* the orders in which the index may hand back records at equal distance
IndexOrders == {"insertion", "reverse"}

\* collection.query(query_embeddings, where, n_results): the n_results
\* nearest records that match the filter, nearest first; the index does not
\* say how it orders records at equal distance
ChromaQuery(coll, query_embedding, user_id, n_results, order) ==
    LET matching == SelectSeq(coll, LAMBDA record : MatchesWhere(record, user_id))
        scanned == IF order = "reverse" THEN Reverse(matching) ELSE matching
        hits == [i \in 1..Len(scanned) |->
                    [document |-> scanned[i].document,
                     metadata |-> scanned[i].metadata,
                     distance |-> Distance(query_embedding, scanned[i].embedding)]]
    IN  Take(SortByDistance(hits), n_results)

SimilarMessages(hits) ==
    [i \in 1..Len(hits) |->
        [message |-> hits[i].document,
         message_id |-> hits[i].metadata.message_id,
         created_at |-> hits[i].metadata.created_at,
         similarity_score |-> RAdd(One, RMul(RInt(0 - 1), hits[i].distance)),
         distance |-> hits[i].distance]]

\* a search that answers an unavailable or failing index with an empty success
FindSimilarUnavailableAsEmpty(coll, available, user_id, message, top_k, response, order, query_ok, t) ==
    LET similar_messages ==
            IF available /\ query_ok /\ ~GenerateEmbedding(response).raised
            THEN SimilarMessages(ChromaQuery(coll, GenerateEmbedding(response).embedding,
                                             user_id, top_k, order))
            ELSE << >>
    IN  [success |-> TRUE, user_id |-> user_id, query_message |-> message,
         similar_messages |-> similar_messages,
         total_found |-> Len(similar_messages), timestamp |-> t]

\* the value find_similar_messages returns; query_ok = FALSE is
\* collection.query raising
FindSimilar(coll, available, user_id, message, top_k, response, order, query_ok, t) ==
    IF ~available
    THEN [success |-> FALSE, error |-> "Vector search not available",
          user_id |-> user_id, query_message |-> message,
          similar_messages |-> << >>, timestamp |-> t]
    ELSE IF GenerateEmbedding(response).raised
    THEN [success |-> FALSE, error |-> "Failed to generate embedding",
          user_id |-> user_id, query_message |-> message, timestamp |-> t]
    ELSE IF ~query_ok
    THEN [success |-> FALSE, error |-> "query failed",
          user_id |-> user_id, query_message |-> message, timestamp |-> t]
    ELSE LET similar_messages ==
                 SimilarMessages(ChromaQuery(coll, GenerateEmbedding(response).embedding,
                                             user_id, top_k, order))
         IN  [success |-> TRUE, user_id |-> user_id, query_message |-> message,
              similar_messages |-> similar_messages,
              total_found |-> Len(similar_messages), timestamp |-> t]

FindSimilarMessages(user_id, message, top_k, response, order, query_ok) ==
    /\ now' = now + 1
    /\ call' = [op |-> "find_similar_messages", user_id |-> user_id, message |-> message,
                top_k |-> top_k, response |-> response, order |-> order,
                query_ok |-> query_ok]
    /\ ret' = FindSimilar(collection, collection_ok, user_id, message, top_k,
                          response, order, query_ok, now + 1)
    /\ UNCHANGED <<profiles, collection, collection_ok, nextUuid, requests>>

\* get_memory_stats: the count is the length of a query for one result
GetMemoryStats(user_id, order, query_ok) ==
    LET dummy == [len |-> EmbeddingDimension, at |-> 0]
        chroma_count ==
            IF collection_ok /\ query_ok
            THEN Len(ChromaQuery(collection, dummy, user_id, 1, order))
            ELSE 0 - 1
    IN  /\ now' = now + 1
        /\ call' = [op |-> "get_memory_stats", user_id |-> user_id, order |-> order,
                    query_ok |-> query_ok]
        /\ ret' = [success |-> TRUE, user_id |-> user_id,
                   database_message_count |-> 0,
                   chroma_embedding_count |-> chroma_count,
                   storage_sync |-> (0 = chroma_count),
                   timestamp |-> now + 1]
        /\ UNCHANGED <<profiles, collection, collection_ok, nextUuid, requests>>

DefaultEmotionKeywords ==
    <<"happy", "sad", "angry", "excited", "worried", "anxious",
      "grateful", "frustrated", "peaceful", "stressed", "joyful", "lonely">>

\* f"I feel {emotion}"
Probe(emotion) ==
    CASE emotion = "happy" -> "i_feel_happy"
      [] emotion = "sad" -> "i_feel_sad"
      [] emotion = "angry" -> "i_feel_angry"
      [] emotion = "excited" -> "i_feel_excited"
      [] emotion = "worried" -> "i_feel_worried"
      [] emotion = "anxious" -> "i_feel_anxious"
      [] emotion = "grateful" -> "i_feel_grateful"
      [] emotion = "frustrated" -> "i_feel_frustrated"
      [] emotion = "peaceful" -> "i_feel_peaceful"
      [] emotion = "stressed" -> "i_feel_stressed"
      [] emotion = "joyful" -> "i_feel_joyful"
      [] emotion = "lonely" -> "i_feel_lonely"

ProbeTopK == 3
InsightCap == 10

\* a tagging that labels every message with the first default keyword
TaggedAlike(messages, emotion) ==
    [i \in 1..Len(messages) |-> ("detected_emotion" :> "happy") @@ messages[i]]

Tagged(messages, emotion) ==
    [i \in 1..Len(messages) |-> ("detected_emotion" :> emotion) @@ messages[i]]

\* the loop over the keywords: the pooled, tagged results of the probes;
\* failing is the set of keywords whose probe's embedding request raises
RECURSIVE PoolProbes(_, _, _, _, _, _, _)
PoolProbes(coll, available, user_id, emotion_keywords, failing, order, t) ==
    IF emotion_keywords = << >> THEN << >>
    ELSE LET emotion == Head(emotion_keywords)
             response == IF emotion \in failing
                         THEN [raised |-> TRUE, embedding |-> [len |-> 0, at |-> 0]]
                         ELSE [raised |-> FALSE,
                               embedding |-> [len |-> EmbeddingDimension,
                                              at |-> Coord[Probe(emotion)]]]
             emotion_results == FindSimilar(coll, available, user_id, Probe(emotion),
                                            ProbeTopK, response, order, TRUE, t)
             found == IF emotion_results.success
                         /\ Get(emotion_results, "similar_messages", << >>) # << >>
                      THEN Tagged(emotion_results.similar_messages, emotion)
                      ELSE << >>
         IN  found \o PoolProbes(coll, available, user_id, Tail(emotion_keywords),
                                 failing, order, t)

\* emotional_messages.sort(key=similarity_score, reverse=True): stable
RECURSIVE SortBySimilarity(_)
SortBySimilarity(s) ==
    IF Len(s) <= 1 THEN s
    ELSE LET m == CHOOSE i \in 1..Len(s) :
                     \A j \in 1..Len(s) :
                         /\ j < i => RLt(s[j].similarity_score, s[i].similarity_score)
                         /\ j > i => RLe(s[j].similarity_score, s[i].similarity_score)
         IN  <<s[m]>> \o SortBySimilarity(Remove(s, m))

\* a pass that keeps every occurrence
RemoveDuplicatesKeepAll(s) == s

\* the seen_ids loop: the first occurrence of each message_id
RemoveDuplicates(s) ==
    LET keep == {i \in 1..Len(s) : \A j \in 1..(i - 1) : s[j].message_id # s[i].message_id}
        F[i \in 0..Len(s)] ==
            IF i = 0 THEN << >>
            ELSE IF i \in keep THEN Append(F[i - 1], s[i]) ELSE F[i - 1]
    IN  F[Len(s)]

\* an insights request that reports failure when a probe has failed
GetEmotionalInsightsStrict(user_id, emotion_keywords, failing, order) ==
    LET t == now + 1
        emotional_messages ==
            SortBySimilarity(PoolProbes(collection, collection_ok, user_id,
                                        emotion_keywords, failing, order, t))
        unique_messages == RemoveDuplicates(emotional_messages)
        failed == emotion_keywords # << >> /\ (~collection_ok \/ failing # {})
    IN  /\ now' = t
        /\ call' = [op |-> "get_emotional_insights", user_id |-> user_id,
                    emotion_keywords |-> emotion_keywords, failing |-> failing,
                    order |-> order]
        /\ ret' = IF failed
                  THEN [success |-> FALSE, error |-> "probe failed",
                        user_id |-> user_id, timestamp |-> t]
                  ELSE [success |-> TRUE, user_id |-> user_id,
                        emotional_messages |-> Take(unique_messages, InsightCap),
                        emotions_searched |-> emotion_keywords,
                        total_found |-> Len(unique_messages),
                        timestamp |-> t]
        /\ UNCHANGED <<profiles, collection, collection_ok, nextUuid, requests>>

GetEmotionalInsights(user_id, emotion_keywords, failing, order) ==
    LET t == now + 1
        emotional_messages ==
            SortBySimilarity(PoolProbes(collection, collection_ok, user_id,
                                        emotion_keywords, failing, order, t))
        unique_messages == RemoveDuplicates(emotional_messages)
    IN  /\ now' = t
        /\ call' = [op |-> "get_emotional_insights", user_id |-> user_id,
                    emotion_keywords |-> emotion_keywords, failing |-> failing,
                    order |-> order]
        /\ ret' = [success |-> TRUE, user_id |-> user_id,
                   emotional_messages |-> Take(unique_messages, InsightCap),
                   emotions_searched |-> emotion_keywords,
                   total_found |-> Len(unique_messages),
                   timestamp |-> t]
        /\ UNCHANGED <<profiles, collection, collection_ok, nextUuid, requests>>

(***************************************************************************)
(* Inputs of the personality requests                                      *)
(***************************************************************************)
Quotes(n) == [i \in 1..n |-> "quote"]

\* the spec's example: extroversion 0.8 with three snippets, the rest omitted
EvExtro == [extroversion |-> [score |-> <<4, 5>>, evidence |-> Quotes(3)]]

\* scores outside [0,1], a capped weight, a dimension with no snippets
EvWild ==
    [extroversion |-> [score |-> <<1, 5>>, evidence |-> Quotes(1)],
     sensing |-> [score |-> <<3, 2>>, evidence |-> Quotes(6)],
     thinking |-> [score |-> <<0 - 1, 2>>, evidence |-> Quotes(2)],
     judging |-> [score |-> <<9, 10>>, evidence |-> Quotes(0)]]

\* all four dimensions, each at the capped weight
EvSteady ==
    [extroversion |-> [score |-> <<3, 2>>, evidence |-> Quotes(6)],
     sensing |-> [score |-> <<0 - 1, 2>>, evidence |-> Quotes(5)],
     thinking |-> [score |-> <<4, 5>>, evidence |-> Quotes(7)],
     judging |-> [score |-> <<1, 5>>, evidence |-> Quotes(5)]]

ShortSummary == [text |-> "s1", len |-> 40]
LongSummary == [text |-> "s2", len |-> 600]

Sessions ==
    { [extractor |-> [ok |-> TRUE, evidence |-> EvExtro], summary |-> ShortSummary],
      [extractor |-> [ok |-> TRUE, evidence |-> EvWild], summary |-> LongSummary],
      [extractor |-> [ok |-> TRUE, evidence |-> EvSteady], summary |-> ShortSummary],
      [extractor |-> [ok |-> FALSE, evidence |-> EmptyDict], summary |-> ShortSummary] }

LongSessions ==
    { [extractor |-> [ok |-> TRUE, evidence |-> EvSteady], summary |-> ShortSummary] }

(***************************************************************************)
(* Specifications                                                          *)
(***************************************************************************)
Init ==
    /\ profiles = << >>
    /\ collection = << >>
    /\ collection_ok = TRUE
    /\ now = 0
    /\ nextUuid = 1
    /\ call = [op |-> "init"]
    /\ ret = EmptyDict
    /\ requests = << >>

Update ==
    /\ now < MaxClock
    /\ \E user_id \in Owners, session \in Sessions, load_ok \in BOOLEAN, save_ok \in BOOLEAN :
          UpdatePersonalityFromSession(user_id, session, load_ok, save_ok)

Insights ==
    /\ now < MaxClock
    /\ \E user_id \in Owners, load_ok \in BOOLEAN :
          GetPersonalityInsights(user_id, load_ok)

Next == Update \/ Insights

Spec == Init /\ [][Next]_vars

\* long runs of one owner: every save succeeds, the load may fail
LongUpdate ==
    /\ now < MaxLongClock
    /\ \E session \in LongSessions, load_ok \in BOOLEAN :
          UpdatePersonalityFromSession("A", session, load_ok, TRUE)

NextLong == LongUpdate

SpecLong == Init /\ [][NextLong]_vars

(***************************************************************************)
(* The memory service                                                      *)
(***************************************************************************)
MaxK == 2              \* largest top_k asked of find_similar_messages

StoreTexts == <<"great_day", "so_sad", "so_worried", "calm_now">>
MemoryTexts == {"great_day", "so_sad"}
QueryTexts == {"great_day", "i_feel_grateful"}

Vocabularies == {DefaultEmotionKeywords, <<"sad", "happy", "sad">>, << >>}

InitMemory ==
    /\ profiles = << >>
    /\ collection = << >>
    /\ collection_ok \in BOOLEAN
    /\ now = 0
    /\ nextUuid = 1
    /\ call = [op |-> "init"]
    /\ ret = EmptyDict
    /\ requests = << >>

OkResponse(text) ==
    [raised |-> FALSE, embedding |-> [len |-> EmbeddingDimension, at |-> Coord[text]]]

\* what the collaborators of one request can do: once the embedding request
\* has failed, the index is not reached
StoreEnvs(message) ==
    {[response |-> r, add_ok |-> TRUE] : r \in EmbeddingResponses(message)}
        \cup {[response |-> OkResponse(message), add_ok |-> FALSE]}

FindEnvs(message) ==
    {[response |-> r, order |-> "insertion", query_ok |-> TRUE] :
         r \in EmbeddingResponses(message)}
        \cup {[response |-> OkResponse(message), order |-> "reverse", query_ok |-> TRUE],
              [response |-> OkResponse(message), order |-> "insertion", query_ok |-> FALSE]}

StatsEnvs ==
    {[order |-> "insertion", query_ok |-> TRUE],
     [order |-> "reverse", query_ok |-> TRUE],
     [order |-> "insertion", query_ok |-> FALSE]}

Store ==
    /\ now < MaxClock
    /\ \E user_id \in Owners, message \in MemoryTexts :
          \E env \in StoreEnvs(message) :
              StoreMessage(user_id, message, env.response, env.add_ok)

Find ==
    /\ now < MaxClock
    /\ \E user_id \in Owners, message \in QueryTexts, top_k \in 1..MaxK :
          \E env \in FindEnvs(message) :
              FindSimilarMessages(user_id, message, top_k, env.response,
                                  env.order, env.query_ok)

Stats ==
    /\ now < MaxClock
    /\ \E user_id \in Owners, env \in StatsEnvs :
          GetMemoryStats(user_id, env.order, env.query_ok)

NextMemory == Store \/ Find \/ Stats

SpecMemory == InitMemory /\ [][NextMemory]_vars

(***************************************************************************)
(* Emotional insights over a collection that holds earlier messages: the   *)
(* collection is persistent (PersistentClient(path="./chroma_db")), so a   *)
(* new service instance finds what earlier processes stored.               *)
(***************************************************************************)
MaxPersisted == 12     \* messages of owner A stored by earlier processes
MaxInsightClock == 2   \* requests per run of SpecInsights

PersistedRecord(i, n) ==
    LET message == StoreTexts[((i - 1) % Len(StoreTexts)) + 1]
    IN  [id |-> 1000 + i,
         document |-> message,
         embedding |-> [len |-> EmbeddingDimension, at |-> Coord[message]],
         metadata |-> [user_id |-> "A", message_id |-> 1000 + i, created_at |-> i - n]]

InitInsights ==
    /\ profiles = << >>
    /\ \E n \in {0, MaxPersisted} : collection = [i \in 1..n |-> PersistedRecord(i, n)]
    /\ collection_ok \in BOOLEAN
    /\ now = 0
    /\ nextUuid = 1
    /\ call = [op |-> "init"]
    /\ ret = EmptyDict
    /\ requests = << >>

FailingSets(emotion_keywords) ==
    {{}, {emotion_keywords[i] : i \in 1..Len(emotion_keywords)}}
        \cup {{emotion_keywords[i]} : i \in 1..(IF Len(emotion_keywords) > 0 THEN 1 ELSE 0)}

StoreMore ==
    /\ now < MaxInsightClock
    /\ \E user_id \in Owners, i \in 1..Len(StoreTexts) :
          StoreMessage(user_id, StoreTexts[i], OkResponse(StoreTexts[i]), TRUE)

InsightsMore ==
    /\ now < MaxInsightClock
    /\ \E user_id \in Owners, emotion_keywords \in Vocabularies, order \in IndexOrders :
          \E failing \in FailingSets(emotion_keywords) :
              GetEmotionalInsights(user_id, emotion_keywords, failing, order)

NextInsights == StoreMore \/ InsightsMore

SpecInsights == InitInsights /\ [][NextInsights]_vars

(***************************************************************************)
(* The type classifier applied to a grid of scores                         *)
(***************************************************************************)
GridSteps == 2         \* the grid has 2 * GridSteps + 1 points around 0.5

ScoreGrid == {R(50 + 50 * i, 100) : i \in {0 - 1, 1}}
                 \cup {R(50 + i, 100) : i \in (1 - GridSteps)..(GridSteps - 1)}

ProfileOfScores(scores) ==
    [extroversion_score |-> scores["extroversion"],
     sensing_score |-> scores["sensing"],
     thinking_score |-> scores["thinking"],
     judging_score |-> scores["judging"]]

InitClassify ==
    /\ profiles = << >>
    /\ collection = << >>
    /\ collection_ok = TRUE
    /\ now = 0
    /\ nextUuid = 1
    /\ \E scores \in [Dims -> ScoreGrid] : call = [op |-> "scores", scores |-> scores]
    /\ ret = EmptyDict
    /\ requests = << >>

Classify ==
    /\ call.op = "scores"
    /\ call' = [call EXCEPT !.op = "calculate_mbti_type"]
    /\ ret' = [service |-> CalculateMbtiType(ProfileOfScores(call.scores)),
               database |-> DatabaseCalculateMbtiType(call.scores)]
    /\ UNCHANGED <<profiles, collection, collection_ok, now, nextUuid, requests>>

NextClassify == Classify

SpecClassify == InitClassify /\ [][NextClassify]_vars

(***************************************************************************)
(* Both services behind one application, requests of the owners            *)
(* interleaved                                                             *)
(***************************************************************************)
MaxServiceClock == 2

ServiceSessions ==
    { [extractor |-> [ok |-> TRUE, evidence |-> EvExtro], summary |-> ShortSummary],
      [extractor |-> [ok |-> FALSE, evidence |-> EmptyDict], summary |-> ShortSummary] }

\* the table answers, or the load raises, or the save raises
ProfileEnvs ==
    {[load_ok |-> TRUE, save_ok |-> TRUE],
     [load_ok |-> FALSE, save_ok |-> TRUE],
     [load_ok |-> TRUE, save_ok |-> FALSE]}

ServiceUpdate ==
    /\ now < MaxServiceClock
    /\ \E user_id \in Owners, session \in ServiceSessions, env \in ProfileEnvs :
          UpdatePersonalityFromSession(user_id, session, env.load_ok, env.save_ok)

ServiceInsights ==
    /\ now < MaxServiceClock
    /\ \E user_id \in Owners : GetPersonalityInsights(user_id, TRUE)

ServiceStore ==
    /\ now < MaxServiceClock
    /\ \E user_id \in Owners, message \in MemoryTexts, add_ok \in BOOLEAN :
          StoreMessage(user_id, message, OkResponse(message), add_ok)

ServiceFind ==
    /\ now < MaxServiceClock
    /\ \E user_id \in Owners, order \in IndexOrders :
          FindSimilarMessages(user_id, "great_day", MaxK, OkResponse("great_day"),
                              order, TRUE)

ServiceStats ==
    /\ now < MaxServiceClock
    /\ \E user_id \in Owners : GetMemoryStats(user_id, "insertion", TRUE)

NextService ==
    ServiceUpdate \/ ServiceInsights \/ ServiceStore \/ ServiceFind \/ ServiceStats

SpecService == InitMemory /\ [][NextService]_vars

(***************************************************************************)
(* _bayesian_update in floating point                                      *)
(*                                                                         *)
(* Python's float is binary floating point, every operation rounded to the *)
(* nearest representable value, ties to even.  A non-negative float is a   *)
(* pair <<m, e>> that stands for m * 2^e, with m = 0 or                    *)
(* 2^(SignificandBits - 1) <= m < 2^SignificandBits.  Python's significand *)
(* has 53 bits; the format here is narrower so that the products stay     *)
(* within 32-bit integers, and is rounded in the same way.                 *)
(***************************************************************************)
SignificandBits == 8

MaxFloatClock == 3     \* updates applied one after another

FloatZero == <<0, 0>>

\* (n / d) * 2^e rounded to the nearest float, ties to even; n >= 0, d > 0
RECURSIVE RoundToFloat(_, _, _)
RoundToFloat(n, d, e) ==
    IF n = 0 THEN FloatZero
    ELSE IF n >= d * 2^SignificandBits THEN RoundToFloat(n, 2 * d, e + 1)
    ELSE IF n < d * 2^(SignificandBits - 1) THEN RoundToFloat(2 * n, d, e - 1)
    ELSE LET q == n \div d
             r == n % d
             m == IF 2 * r > d \/ (2 * r = d /\ q % 2 = 1) THEN q + 1 ELSE q
         IN  IF m = 2^SignificandBits
             THEN <<2^(SignificandBits - 1), e + 1>>
             ELSE <<m, e>>

\* a decimal literal n/d of the source, and an int converted for a product
FloatLiteral(n, d) == RoundToFloat(n, d, 0)
FloatOfInt(k) == RoundToFloat(k, 1, 0)

FloatMul(x, y) == RoundToFloat(x[1] * y[1], 1, x[2] + y[2])

FloatDiv(x, y) == RoundToFloat(x[1], y[1], x[2] - y[2])

\* the smaller operand is lost when it is below a quarter of the last place
FloatAdd(x, y) ==
    IF x[1] = 0 THEN y
    ELSE IF y[1] = 0 THEN x
    ELSE LET hi == IF x[2] >= y[2] THEN x ELSE y
             lo == IF x[2] >= y[2] THEN y ELSE x
         IN  IF hi[2] - lo[2] > SignificandBits + 2 THEN hi
             ELSE RoundToFloat(hi[1] * 2^(hi[2] - lo[2]) + lo[1], 1, lo[2])

FloatLt(x, y) ==
    IF y[1] = 0 THEN FALSE
    ELSE IF x[1] = 0 THEN TRUE
    ELSE x[2] < y[2] \/ (x[2] = y[2] /\ x[1] < y[1])

FloatMin(x, y) == IF FloatLt(y, x) THEN y ELSE x
FloatMax(x, y) == IF FloatLt(x, y) THEN y ELSE x

\* BayesianDim with every operation rounded
FloatBayesianDim(profile, evidence, dim) ==
    LET current_score == Get(profile, ScoreKey(dim), FloatLiteral(1, 2))
        current_confidence == Get(profile, ConfidenceKey(dim), FloatZero)
        sessions_analyzed == Get(profile, "sessions_analyzed", 0)
        dim_evidence == Get(evidence, dim, EmptyDict)
        new_evidence_score == Get(dim_evidence, "score", FloatLiteral(1, 2))
        evidence_strength == Len(Get(dim_evidence, "evidence", << >>))
        evidence_weight ==
            FloatMin(FloatMul(FloatOfInt(evidence_strength), FloatLiteral(1, 10)),
                     FloatLiteral(1, 2))
        prior_weight ==
            FloatMul(FloatMul(current_confidence, FloatOfInt(sessions_analyzed)),
                     FloatLiteral(1, 10))
        total_weight == FloatAdd(prior_weight, evidence_weight)
        updated_score ==
            IF FloatLt(FloatZero, total_weight)
            THEN FloatDiv(FloatAdd(FloatMul(current_score, prior_weight),
                                   FloatMul(new_evidence_score, evidence_weight)),
                          total_weight)
            ELSE current_score
        updated_confidence ==
            IF FloatLt(FloatZero, total_weight)
            THEN FloatMin(FloatAdd(current_confidence,
                                   FloatMul(evidence_weight, FloatLiteral(1, 10))),
                          FloatLiteral(1, 1))
            ELSE current_confidence
    IN  [score |-> FloatMax(FloatZero, FloatMin(FloatLiteral(1, 1), updated_score)),
         confidence |-> updated_confidence]

FloatBayesianUpdate(profile, evidence) ==
    [dim \in Dims |-> FloatBayesianDim(profile, evidence, dim)]

\* the scores, confidences and counter an update hands to the next one
FloatUpdatedProfile(profile, evidence) ==
    LET updated_scores == FloatBayesianUpdate(profile, evidence)
    IN  [extroversion_score |-> updated_scores["extroversion"].score,
         sensing_score |-> updated_scores["sensing"].score,
         thinking_score |-> updated_scores["thinking"].score,
         judging_score |-> updated_scores["judging"].score,
         extroversion_confidence |-> updated_scores["extroversion"].confidence,
         sensing_confidence |-> updated_scores["sensing"].confidence,
         thinking_confidence |-> updated_scores["thinking"].confidence,
         judging_confidence |-> updated_scores["judging"].confidence,
         sessions_analyzed |-> Get(profile, "sessions_analyzed", 0) + 1]

\* what the extractor may return: nothing, one dimension, a dimension with a
\* score and no snippets, several dimensions
FloatEvidences ==
    { EmptyDict,
      [extroversion |-> [score |-> FloatLiteral(1, 10), evidence |-> Quotes(3)]],
      [extroversion |-> [score |-> FloatLiteral(9, 10), evidence |-> Quotes(5)],
       sensing |-> [score |-> FloatLiteral(7, 10), evidence |-> Quotes(0)]],
      [thinking |-> [score |-> FloatLiteral(3, 10), evidence |-> Quotes(1)]],
      [sensing |-> [score |-> FloatLiteral(4, 5), evidence |-> Quotes(2)],
       judging |-> [score |-> FloatLiteral(1, 1), evidence |-> Quotes(6)]] }

FloatDefaults ==
    [extroversion_score |-> FloatLiteral(1, 2),
     sensing_score |-> FloatLiteral(1, 2),
     thinking_score |-> FloatLiteral(1, 2),
     judging_score |-> FloatLiteral(1, 2),
     extroversion_confidence |-> FloatZero,
     sensing_confidence |-> FloatZero,
     thinking_confidence |-> FloatZero,
     judging_confidence |-> FloatZero,
     sessions_analyzed |-> 0]

InitFloat ==
    /\ profiles = ("A" :> FloatDefaults)
    /\ collection = << >>
    /\ collection_ok = TRUE
    /\ now = 0
    /\ nextUuid = 1
    /\ call = [op |-> "init"]
    /\ ret = EmptyDict
    /\ requests = << >>

FloatUpdate ==
    /\ now < MaxFloatClock
    /\ \E evidence \in FloatEvidences :
          /\ profiles' = ("A" :> FloatUpdatedProfile(profiles["A"], evidence))
          /\ call' = [op |-> "_bayesian_update", evidence |-> evidence]
          /\ ret' = FloatBayesianUpdate(profiles["A"], evidence)
    /\ now' = now + 1
    /\ UNCHANGED <<collection, collection_ok, nextUuid, requests>>

NextFloat == FloatUpdate

SpecFloat == InitFloat /\ [][NextFloat]_vars

(***************************************************************************)
(* Properties                                                              *)
(***************************************************************************)
IsUpdate(c) == c.op = "update_personality_from_session"

InUnit(x) == x[2] > 0 /\ 0 <= x[1] /\ x[1] <= x[2]

\* the profile an update computes from: the stored row, the row it creates,
\* or nothing when the load failed
Loaded(table, c) ==
    IF ~c.load_ok THEN EmptyDict
    ELSE IF c.user_id \in DOMAIN table THEN table[c.user_id]
    ELSE [sessions_analyzed |-> 0, evidence_log |-> << >>]

\* C1: every stored trait score and every stored confidence lies in [0, 1],
\* whatever evidence the updates carried.
C1_ScoresAndConfidencesInUnit ==
    \A o \in DOMAIN profiles : \A dim \in Dims :
        /\ InUnit(profiles[o][ScoreKey(dim)])
        /\ InUnit(profiles[o][ConfidenceKey(dim)])

\* evidence above 1 and below 0 has been clamped and a confidence has
\* saturated: 21 updates at the capped weight
C1_Witness ==
    /\ IsUpdate(call)
    /\ "A" \in DOMAIN profiles
    /\ profiles["A"].sessions_analyzed > 20
    /\ profiles["A"].extroversion_score = One
    /\ profiles["A"].sensing_score = Zero
    /\ profiles["A"].extroversion_confidence = One

\* C2: the stored confidence of a dimension never decreases from one update
\* to the next.
C2_ConfidenceNeverDecreases ==
    [][\A o \in DOMAIN profiles \cap DOMAIN profiles' : \A dim \in Dims :
          RLe(profiles[o][ConfidenceKey(dim)], profiles'[o][ConfidenceKey(dim)])]_vars

\* C3: the stored sessions_analyzed of an owner never decreases.
C3_SessionsNeverDecrease ==
    [][\A o \in DOMAIN profiles \cap DOMAIN profiles' :
          profiles[o].sessions_analyzed <= profiles'[o].sessions_analyzed]_vars

\* C4: a stored evidence log never holds more than 50 entries, and an append
\* to a log of 50 drops the oldest entry: the new log is the old one without
\* its first entry, followed by the new entry.
C4_LogCappedFifo ==
    /\ [](\A o \in DOMAIN profiles : Len(profiles[o].evidence_log) <= 50)
    /\ [][(/\ IsUpdate(call')
           /\ call'.save_ok
           /\ call'.user_id \in DOMAIN profiles
           /\ Len(Get(Loaded(profiles, call'), "evidence_log", << >>)) = 50)
          => LET old == Loaded(profiles, call').evidence_log
                 new == profiles'[call'.user_id].evidence_log
             IN  /\ Len(new) = 50
                 /\ \A i \in 1..49 : new[i] = old[i + 1]
                 /\ new[50].timestamp = now'
                 /\ new[50].evidence = call'.evidence
                 /\ new[50].session_summary.text = call'.session.summary.text]_vars

\* the 51st and later appends have happened on a log that was loaded whole
C4_Witness ==
    /\ IsUpdate(call)
    /\ call.load_ok
    /\ "A" \in DOMAIN profiles
    /\ profiles["A"].sessions_analyzed > 50
    /\ Len(profiles["A"].evidence_log) = 50
    /\ profiles["A"].evidence_log[1].timestamp > 1

\* C8: each letter of the type depends only on its own score: above 0.5 it is
\* E, S, T or J, at or below 0.5 it is I, N, F or P; four scores of 0.5 give INFP.
HighLetter == [extroversion |-> "E", sensing |-> "S", thinking |-> "T", judging |-> "J"]
LowLetter == [extroversion |-> "I", sensing |-> "N", thinking |-> "F", judging |-> "P"]

C8_ClassifierByMidpoint ==
    call.op = "calculate_mbti_type" =>
        /\ \A i \in 1..4 :
              LET dim == dimensions[i]
                  x == call.scores[dim]
                  letter == IF 2 * x[1] > x[2] THEN HighLetter[dim] ELSE LowLetter[dim]
              IN  ret.service[i] = letter /\ ret.database[i] = letter
        /\ (\A dim \in Dims : call.scores[dim] = <<1, 2>>)
              => ret.service = <<"I", "N", "F", "P">> /\ ret.database = <<"I", "N", "F", "P">>

C8_Witness ==
    /\ call.op = "calculate_mbti_type"
    /\ \A dim \in Dims : call.scores[dim] = <<1, 2>>
    /\ ret.service = <<"I", "N", "F", "P">>

\* C9: the score an update produces is the reference blend
\*   (score * prior + evidence_score * weight) / (prior + weight), clamped to [0, 1],
\* with weight = min(0.1 * snippets, 0.5) and prior = confidence * sessions * 0.1,
\* and the current score when prior + weight is not positive; a fresh profile
\* given extroversion 0.8 with 3 snippets gets (0.8, 0.03), the rest (0.5, 0.0).
\* The blend is written over integers: with score a/b, confidence c/d,
\* evidence e/f, s sessions and w = min(snippets, 5) tenths of weight,
\* it is (a*c*s*f + e*w*d*b) / (b*f*(c*s + w*d)), in lowest terms.
RefScoreHolds(profile, evidence, dim, result) ==
    LET a == Get(profile, ScoreKey(dim), <<1, 2>>)[1]
        b == Get(profile, ScoreKey(dim), <<1, 2>>)[2]
        c == Get(profile, ConfidenceKey(dim), <<0, 1>>)[1]
        d == Get(profile, ConfidenceKey(dim), <<0, 1>>)[2]
        s == Get(profile, "sessions_analyzed", 0)
        present == dim \in DOMAIN evidence
        e == IF present /\ "score" \in DOMAIN evidence[dim] THEN evidence[dim].score[1] ELSE 1
        f == IF present /\ "score" \in DOMAIN evidence[dim] THEN evidence[dim].score[2] ELSE 2
        n == IF present /\ "evidence" \in DOMAIN evidence[dim] THEN Len(evidence[dim].evidence) ELSE 0
        w == IF n < 5 THEN n ELSE 5
        num == a * c * s * f + e * w * d * b
        den == b * f * (c * s + w * d)
    IN  IF c * s + w * d > 0
        THEN IF num < 0 THEN result = <<0, 1>>
             ELSE IF num > den THEN result = <<1, 1>>
             ELSE result = R(num, den)
        ELSE result = R(a, b)

IsFind(c) == c.op = "find_similar_messages"
IsStore(c) == c.op = "store_message"

\* position of the record with this id in the collection (0 when absent)
PositionOf(message_id) ==
    IF \E j \in 1..Len(collection) : collection[j].id = message_id
    THEN CHOOSE j \in 1..Len(collection) : collection[j].id = message_id
    ELSE 0

\* C5: every record find_similar_messages returns for an owner is a record
\* stored under that owner, also when another owner stored the same text.
C5_ResultsBelongToOwner ==
    (IsFind(call) /\ ret.success) =>
        \A i \in 1..Len(ret.similar_messages) :
            \E j \in 1..Len(collection) :
                /\ collection[j].id = ret.similar_messages[i].message_id
                /\ collection[j].document = ret.similar_messages[i].message
                /\ collection[j].metadata.user_id = call.user_id

\* a query of one owner has answered while another owner holds the same text
C5_Witness ==
    /\ IsFind(call)
    /\ ret.success
    /\ Len(ret.similar_messages) > 0
    /\ \E j \in 1..Len(collection) :
          /\ collection[j].metadata.user_id # call.user_id
          /\ collection[j].document = ret.similar_messages[1].message

\* C6: when the embedding request fails or answers with a vector that is not
\* 1536 long, store_message reports failure and the collection is unchanged;
\* no stored record has an embedding of another length.
C6_NoRecordWithoutEmbedding ==
    /\ [](\A j \in 1..Len(collection) : collection[j].embedding.len = 1536)
    /\ [][(IsStore(call') /\ (call'.response.raised \/ call'.response.embedding.len # 1536))
          => (ret'.success = FALSE /\ collection' = collection)]_vars

\* a vector of the wrong length was refused while the collection held a record
C6_Witness ==
    /\ IsStore(call)
    /\ ~call.response.raised
    /\ call.response.embedding.len # 1536
    /\ ret.success = FALSE
    /\ Len(collection) > 0

\* C7: get_emotional_insights returns at most 10 messages, no two with the
\* same message_id, in non-increasing order of similarity_score.
C7_InsightsCappedUniqueSorted ==
    call.op = "get_emotional_insights" =>
        LET messages == ret.emotional_messages
        IN  /\ Len(messages) <= 10
            /\ \A i, j \in 1..Len(messages) :
                  i # j => messages[i].message_id # messages[j].message_id
            /\ \A i \in 1..(Len(messages) - 1) :
                  RLe(messages[i + 1].similarity_score, messages[i].similarity_score)

\* more than 10 distinct records surfaced and 10 were returned
C7_Witness ==
    /\ call.op = "get_emotional_insights"
    /\ ret.total_found > 10
    /\ Len(ret.emotional_messages) = 10

\* C10: find_similar_messages returns at most top_k records of the owner,
\* nearest first, each with similarity_score = 1 - distance, and records at
\* equal distance in the order they were stored.
C10_RankedWithInsertionTieBreak ==
    (IsFind(call) /\ ret.success) =>
        LET messages == ret.similar_messages
        IN  /\ Len(messages) <= call.top_k
            /\ \A i \in 1..Len(messages) :
                  /\ PositionOf(messages[i].message_id) > 0
                  /\ collection[PositionOf(messages[i].message_id)].metadata.user_id = call.user_id
                  /\ RAdd(messages[i].similarity_score, messages[i].distance) = <<1, 1>>
            /\ \A i \in 1..(Len(messages) - 1) :
                  /\ RLe(messages[i].distance, messages[i + 1].distance)
                  /\ messages[i].distance = messages[i + 1].distance
                        => PositionOf(messages[i].message_id) < PositionOf(messages[i + 1].message_id)

\* records of the collection stored under an owner
RecordsOf(coll, user_id) ==
    {j \in 1..Len(coll) : coll[j].metadata.user_id = user_id}

\* C11: when the owner has no stored record and the index and the embedding
\* request both work, find_similar_messages answers success with an empty
\* list and total_found 0, not an error.
C11_EmptyOwnerFindsNothing ==
    (/\ IsFind(call)
     /\ collection_ok
     /\ call.query_ok
     /\ ~GenerateEmbedding(call.response).raised
     /\ RecordsOf(collection, call.user_id) = {})
        => (/\ ret.success = TRUE
            /\ "error" \notin DOMAIN ret
            /\ ret.similar_messages = << >>
            /\ ret.total_found = 0)

\* an owner without records asked while another owner held the queried text
C11_Witness ==
    /\ IsFind(call)
    /\ collection_ok
    /\ ret.success
    /\ RecordsOf(collection, call.user_id) = {}
    /\ \E j \in 1..Len(collection) : collection[j].document = call.message

\* C12: when the index is unavailable (never opened, or the query raises),
\* find_similar_messages answers success = FALSE with an error text, which a
\* caller can tell from a successful answer with no matches.
C12_UnavailableIsNotEmpty ==
    (IsFind(call) /\ (~collection_ok \/ ~call.query_ok))
        => (/\ ret.success = FALSE
            /\ "error" \in DOMAIN ret
            /\ "total_found" \notin DOMAIN ret)

\* the query of the index raised while the index held records of the owner
C12_Witness ==
    /\ IsFind(call)
    /\ collection_ok
    /\ ~call.query_ok
    /\ ret.success = FALSE
    /\ RecordsOf(collection, call.user_id) # {}

\* a successful store_message is followed at once by find_similar_messages for
\* the same owner and text, with the same embedding and a working index
RoundTrip(c, r, c2) ==
    /\ IsStore(c)
    /\ r.success = TRUE
    /\ IsFind(c2)
    /\ c2.user_id = c.user_id
    /\ c2.message = c.message
    /\ c2.response = c.response
    /\ c2.query_ok
    /\ c2.top_k >= 1

\* records of an owner at distance 0 from an embedding
RecordsAt(coll, user_id, embedding) ==
    {j \in RecordsOf(coll, user_id) : Distance(embedding, coll[j].embedding) = Zero}

\* C14 as stated: after a successful store_message(owner, text), an immediately
\* following find_similar_messages(owner, text, k), k >= 1, returns the record
\* just stored, at distance 0 and similarity 1, with nothing ranked nearer.
C14_RoundTripReturnsStored ==
    [][RoundTrip(call, ret, call') =>
          /\ ret'.success = TRUE
          /\ \E i \in 1..Len(ret'.similar_messages) :
                 /\ ret'.similar_messages[i].message_id = ret.message_id
                 /\ ret'.similar_messages[i].distance = Zero
                 /\ ret'.similar_messages[i].similarity_score = One
                 /\ \A j \in 1..Len(ret'.similar_messages) :
                        RLe(ret'.similar_messages[i].distance,
                            ret'.similar_messages[j].distance)]_vars

\* C14: after a successful store_message(owner, text), an immediately following
\* find_similar_messages(owner, text, k), k >= 1, succeeds and its top match is
\* a record of the owner at distance 0 and similarity 1; the record just
\* stored is among the results whenever the owner holds at most k records at
\* distance 0.
C14_RoundTripTopMatch ==
    [][RoundTrip(call, ret, call') =>
          /\ ret'.success = TRUE
          /\ Len(ret'.similar_messages) >= 1
          /\ ret'.similar_messages[1].distance = Zero
          /\ ret'.similar_messages[1].similarity_score = One
          /\ ret'.similar_messages[1].message_id
                 \in {collection[j].id :
                         j \in RecordsAt(collection, call.user_id, call.response.embedding)}
          /\ Cardinality(RecordsAt(collection, call.user_id, call.response.embedding))
                 <= call'.top_k
                => \E i \in 1..Len(ret'.similar_messages) :
                       ret'.similar_messages[i].message_id = ret.message_id]_vars

\* a query for one match, right after the owner stored the same text a second
\* time, answered with the earlier record
C14_Witness ==
    /\ IsFind(call)
    /\ ret.success
    /\ call.top_k = 1
    /\ Len(collection) >= 2
    /\ LET last == collection[Len(collection)]
       IN  /\ last.metadata.created_at = now - 1
           /\ last.metadata.user_id = call.user_id
           /\ last.document = call.message
           /\ ret.similar_messages[1].message_id # last.id
           /\ ret.similar_messages[1].distance = Zero

\* C20: get_memory_stats reports as chroma_embedding_count the number of
\* records stored for the owner, whenever the index answers.
C20_StatsCountRecords ==
    (call.op = "get_memory_stats" /\ collection_ok /\ call.query_ok)
        => ret.chroma_embedding_count = Cardinality(RecordsOf(collection, call.user_id))

IsInsights(c) == c.op = "get_personality_insights"

\* C13: get_personality_insights for an owner without a stored profile returns
\* None from the service, the route answers with the default body (type XXXX,
\* scores 0.5, confidence 0.0, sessions_analyzed 0), and the profile table is
\* unchanged: no row is created by a query.
C13_QueryOfUnseenOwner ==
    [][IsInsights(call') =>
          /\ profiles' = profiles
          /\ call'.user_id \notin DOMAIN profiles =>
                 /\ ret'.insights = EmptyDict
                 /\ ret'.body = DefaultInsights(call'.user_id, now')
                 /\ call'.user_id \notin DOMAIN profiles']_vars

\* an owner without a profile was asked about while another owner had one
C13_Witness ==
    /\ IsInsights(call)
    /\ call.load_ok
    /\ call.user_id \notin DOMAIN profiles
    /\ DOMAIN profiles # {}
    /\ ret.insights = EmptyDict
    /\ ret.body.sessions_analyzed = 0

\* C15: when the evidence has no entry for a dimension, or an entry without
\* snippets, the update leaves the score and the confidence of that dimension
\* as they were.
C15_MissingEvidenceIsNoOp ==
    [][call'.op = "_bayesian_update" =>
          \A dim \in Dims :
              Len(Get(Get(call'.evidence, dim, EmptyDict), "evidence", << >>)) = 0
                  => /\ profiles'["A"][ScoreKey(dim)] = profiles["A"][ScoreKey(dim)]
                     /\ profiles'["A"][ConfidenceKey(dim)] = profiles["A"][ConfidenceKey(dim)]]_vars

\* the row of an owner before a step, or the defaults when there is none
RowBefore(table, user_id) ==
    IF user_id \in DOMAIN table THEN table[user_id] ELSE NewProfile(user_id, 0, 0)

\* C16: when the extractor fails, update_personality_from_session returns its
\* result and the stored row keeps its four scores and four confidences, has
\* sessions_analyzed one higher and one more entry in the evidence log (the
\* oldest entry making room at the cap).
C16_ExtractorFailureKeepsScores ==
    [][(IsUpdate(call') /\ ~call'.session.extractor.ok) =>
          LET user_id == call'.user_id
              before == RowBefore(profiles, user_id)
          IN  /\ ret' # EmptyDict
              /\ user_id \in DOMAIN profiles'
              /\ \A dim \in Dims :
                     /\ profiles'[user_id][ScoreKey(dim)] = before[ScoreKey(dim)]
                     /\ profiles'[user_id][ConfidenceKey(dim)] = before[ConfidenceKey(dim)]
              /\ profiles'[user_id].sessions_analyzed = before.sessions_analyzed + 1
              /\ Len(profiles'[user_id].evidence_log)
                     = IF Len(before.evidence_log) < LogCap
                       THEN Len(before.evidence_log) + 1
                       ELSE LogCap]_vars

\* the overall confidence the stored confidences and counter of a row give
OverallOf(row) ==
    LET sum == RAdd(RAdd(row.extroversion_confidence, row.sensing_confidence),
                    RAdd(row.thinking_confidence, row.judging_confidence))
        multiplier == IF row.sessions_analyzed >= 10 THEN One
                      ELSE R(row.sessions_analyzed, 10)
        product == RMul(R(sum[1], 4 * sum[2]), multiplier)
    IN  IF RLt(One, product) THEN One ELSE product

\* C17: in every state the overall_confidence of every stored profile equals
\* min(average of its four stored confidences * min(sessions_analyzed / 10, 1),
\* 1), computed from the confidences and the counter of the same row.
C17_OverallConfidenceDerived ==
    \A o \in DOMAIN profiles : profiles[o].overall_confidence = OverallOf(profiles[o])

\* a row past ten sessions whose overall confidence is the plain average, and
\* below 1
C17_Witness ==
    \E o \in DOMAIN profiles :
        /\ profiles[o].sessions_analyzed = 11
        /\ profiles[o].overall_confidence = <<11, 20>>
        /\ profiles[o].extroversion_confidence = <<11, 20>>

\* the columns of a row the trait updater maintains
TraitColumns(row) ==
    [k \in {"extroversion_score", "sensing_score", "thinking_score", "judging_score",
             "extroversion_confidence", "sensing_confidence", "thinking_confidence",
             "judging_confidence", "overall_confidence", "sessions_analyzed",
             "evidence_log"} |-> row[k]]

AllDefaults(row) ==
    /\ \A dim \in Dims : row[ScoreKey(dim)] = Half /\ row[ConfidenceKey(dim)] = Zero
    /\ row.overall_confidence = Zero
    /\ row.sessions_analyzed = 0
    /\ row.evidence_log = << >>

\* what one update makes of a row of defaults: with no prior weight the score
\* is the clamped evidence score, or stays 0.5 without snippets
FirstUpdateOfDefaults(row, evidence) ==
    /\ row.sessions_analyzed = 1
    /\ Len(row.evidence_log) = 1
    /\ \A dim \in Dims :
          LET dim_evidence == Get(evidence, dim, EmptyDict)
              strength == Len(Get(dim_evidence, "evidence", << >>))
              score == Get(dim_evidence, "score", Half)
              capped == IF strength >= 5 THEN 5 ELSE strength
          IN  /\ row[ConfidenceKey(dim)] = R(capped, 100)
              /\ row[ScoreKey(dim)] =
                     IF strength = 0 THEN Half
                     ELSE IF RLt(score, Zero) THEN Zero
                     ELSE IF RLt(One, score) THEN One
                     ELSE score

\* C18: a profile row appears only in a step of update_personality_from_session
\* for its owner, created with all defaults (what the step leaves is the
\* defaults, or one update of the defaults); the scores, confidences, counter
\* and log of an existing row change only in such a step.
C18_CreatedAndChangedOnlyByUpdate ==
    [][\A o \in Owners :
          /\ (o \notin DOMAIN profiles /\ o \in DOMAIN profiles') =>
                 /\ IsUpdate(call')
                 /\ call'.user_id = o
                 /\ IF call'.save_ok
                    THEN FirstUpdateOfDefaults(profiles'[o], call'.evidence)
                    ELSE AllDefaults(profiles'[o])
          /\ (o \in DOMAIN profiles /\ o \in DOMAIN profiles'
                 /\ TraitColumns(profiles'[o]) # TraitColumns(profiles[o])) =>
                 (IsUpdate(call') /\ call'.user_id = o)]_vars

\* the first submission of an owner created the row and the save failed, so
\* the row shows what creation wrote
C18_Witness ==
    /\ IsUpdate(call)
    /\ call.load_ok
    /\ ~call.save_ok
    /\ call.user_id \in DOMAIN profiles
    /\ AllDefaults(profiles[call.user_id])
    /\ profiles[call.user_id].created_at = now

\* the records of the collection stored under an owner, in order
RecordSeqOf(coll, user_id) ==
    SelectSeq(coll, LAMBDA record : record.metadata.user_id = user_id)

\* every answer find_similar_messages can give an owner over a collection
FindAnswers(coll, available, user_id) ==
    [message \in QueryTexts, top_k \in 1..MaxK, order \in IndexOrders |->
        FindSimilar(coll, available, user_id, message, top_k, OkResponse(message),
                    order, TRUE, 0)]

\* C19: a request for one owner leaves the state of every other owner as it
\* was: the profile row (present or absent), the records stored under that
\* owner, and every answer find_similar_messages can give that owner.
C19_OwnersDoNotInterfere ==
    [][\A other \in Owners \ {call'.user_id} :
          /\ (other \in DOMAIN profiles) = (other \in DOMAIN profiles')
          /\ other \in DOMAIN profiles => profiles'[other] = profiles[other]
          /\ RecordSeqOf(collection', other) = RecordSeqOf(collection, other)
          /\ FindAnswers(collection', collection_ok', other)
                 = FindAnswers(collection, collection_ok, other)]_vars

\* an update for one owner was saved while the other owner had a profile
C19_Witness ==
    /\ IsUpdate(call)
    /\ call.load_ok
    /\ call.save_ok
    /\ profiles[call.user_id].sessions_analyzed = 1
    /\ \E other \in Owners \ {call.user_id} :
          /\ other \in DOMAIN profiles
          /\ profiles[other].sessions_analyzed = 1
          /\ profiles[other].updated_at < now

\* C24: the collection only grows at its end: every record stays where it is
\* with its id, owner, text and embedding in every step, a successful
\* store_message adds exactly one record, and no two records share an id.
C24_AppendOnlyUniqueIds ==
    /\ [](\A i, j \in 1..Len(collection) : i # j => collection[i].id # collection[j].id)
    /\ [][/\ Len(collection') >= Len(collection)
          /\ \A j \in 1..Len(collection) : collection'[j] = collection[j]
          /\ (IsStore(call') /\ ret'.success) =>
                 /\ Len(collection') = Len(collection) + 1
                 /\ collection'[Len(collection')].id = ret'.message_id
                 /\ collection'[Len(collection')].document = call'.message
                 /\ collection'[Len(collection')].metadata.user_id = call'.user_id
                 /\ collection'[Len(collection')].embedding = call'.response.embedding]_vars

\* the same owner stored the same text twice and both records are there
C24_Witness ==
    /\ Len(collection) >= 2
    /\ collection[1].document = collection[2].document
    /\ collection[1].metadata.user_id = collection[2].metadata.user_id
    /\ collection[1].id # collection[2].id
    /\ ~IsStore(call)

\* C28: store_message answers success = TRUE only when the record was added to
\* the collection; when the index is unavailable or the add raises it answers
\* success = FALSE with the message_id it generated, and the collection is as
\* it was.
C28_SuccessOnlyIfIndexed ==
    [][IsStore(call') =>
          /\ ret'.success =>
                 /\ Len(collection') = Len(collection) + 1
                 /\ collection'[Len(collection')].id = ret'.message_id
          /\ (~GenerateEmbedding(call'.response).raised
                 /\ (~collection_ok \/ ~call'.add_ok)) =>
                 /\ ret'.success = FALSE
                 /\ "message_id" \in DOMAIN ret'
                 /\ ret'.chroma_saved = FALSE
                 /\ collection' = collection]_vars

\* the add raised while the collection held records
C28_Witness ==
    /\ IsStore(call)
    /\ collection_ok
    /\ ~call.add_ok
    /\ ret.success = FALSE
    /\ "message_id" \in DOMAIN ret
    /\ Len(collection) > 0

IsEmotional(c) == c.op = "get_emotional_insights"

\* the occurrences the probes of a request surface: for every keyword whose
\* probe works, the ProbeTopK nearest records of the owner
Occurrences(c) ==
    IF ~collection_ok THEN {}
    ELSE UNION {
           LET emotion == c.emotion_keywords[i]
               hits == ChromaQuery(collection,
                                   [len |-> EmbeddingDimension, at |-> Coord[Probe(emotion)]],
                                   c.user_id, ProbeTopK, c.order)
           IN  {[message_id |-> hits[k].metadata.message_id,
                 similarity_score |-> RAdd(One, RMul(RInt(0 - 1), hits[k].distance)),
                 detected_emotion |-> emotion] : k \in 1..Len(hits)}
           : i \in {n \in 1..Len(c.emotion_keywords) : c.emotion_keywords[n] \notin c.failing}}

\* C22: of a record the probes of several keywords return, the answer of
\* get_emotional_insights holds one occurrence, one of highest
\* similarity_score, tagged with the keyword that gave that occurrence;
\* total_found counts the distinct records surfaced and the answer holds
\* min(10, total_found) of them.
C22_DedupKeepsBestBeforeTruncation ==
    IsEmotional(call) =>
        LET messages == ret.emotional_messages
            occurrences == Occurrences(call)
            surfaced == {o.message_id : o \in occurrences}
        IN  /\ ret.total_found = Cardinality(surfaced)
            /\ Len(messages) = IF Cardinality(surfaced) > 10 THEN 10
                                ELSE Cardinality(surfaced)
            /\ \A i, j \in 1..Len(messages) :
                  i # j => messages[i].message_id # messages[j].message_id
            /\ \A i \in 1..Len(messages) :
                  /\ \E o \in occurrences :
                         /\ o.message_id = messages[i].message_id
                         /\ o.similarity_score = messages[i].similarity_score
                         /\ o.detected_emotion = messages[i].detected_emotion
                  /\ \A o \in occurrences :
                         o.message_id = messages[i].message_id
                             => RLe(o.similarity_score, messages[i].similarity_score)

\* a returned record surfaced for two keywords with different scores, and
\* more than 10 distinct records surfaced
C22_Witness ==
    /\ IsEmotional(call)
    /\ ret.total_found > 10
    /\ Len(ret.emotional_messages) = 10
    /\ \E o1, o2 \in Occurrences(call) :
          /\ o1.message_id = o2.message_id
          /\ o1.detected_emotion # o2.detected_emotion
          /\ RLt(o1.similarity_score, o2.similarity_score)
          /\ \E i \in 1..Len(ret.emotional_messages) :
                 /\ ret.emotional_messages[i].message_id = o2.message_id
                 /\ ret.emotional_messages[i].detected_emotion # "happy"

\* every probe of the request fails: the index is unavailable, or every
\* embedding request raises
AllProbesFail(c) ==
    /\ c.emotion_keywords # << >>
    /\ \/ ~collection_ok
       \/ \A i \in 1..Len(c.emotion_keywords) : c.emotion_keywords[i] \in c.failing

\* C27: when every probe of get_emotional_insights fails, the answer is
\* success = TRUE with no messages and total_found 0 and without an error, as
\* it is for an owner without records.
C27_ProbeFailuresSwallowed ==
    (IsEmotional(call)
        /\ (AllProbesFail(call) \/ RecordsOf(collection, call.user_id) = {}))
        => (/\ ret.success = TRUE
            /\ "error" \notin DOMAIN ret
            /\ ret.emotional_messages = << >>
            /\ ret.total_found = 0
            /\ ret.emotions_searched = call.emotion_keywords)

\* every embedding request raised while the index held records of the owner
C27_Witness ==
    /\ IsEmotional(call)
    /\ collection_ok
    /\ AllProbesFail(call)
    /\ RecordsOf(collection, call.user_id) # {}
    /\ ret.success = TRUE
    /\ ret.total_found = 0

\* C25: when the load fails in update_personality_from_session and the save
\* works, the stored row of the owner is replaced by one update of the
\* defaults: counter 1, a log of one entry, scores and confidences derived
\* from 0.5 and 0.0, whatever the row held.
C25_FailedLoadOverwritesFromDefaults ==
    [][(IsUpdate(call') /\ ~call'.load_ok /\ call'.save_ok
           /\ call'.user_id \in DOMAIN profiles) =>
          LET row == profiles'[call'.user_id]
          IN  /\ FirstUpdateOfDefaults(row, call'.evidence)
              /\ row.evidence_log[1].timestamp = now'
              /\ row.overall_confidence = OverallOf(row)
              /\ row.updated_at = now'
              /\ row.id = profiles[call'.user_id].id
              /\ ret'.sessions_analyzed = 1]_vars

\* the row an owner got two requests earlier was overwritten after a failed load
C25_Witness ==
    /\ IsUpdate(call)
    /\ ~call.load_ok
    /\ call.save_ok
    /\ now = 3
    /\ call.user_id \in DOMAIN profiles
    /\ profiles[call.user_id].created_at = 1
    /\ profiles[call.user_id].sessions_analyzed = 1
    /\ Len(profiles[call.user_id].evidence_log) = 1
    /\ profiles[call.user_id].evidence_log[1].timestamp = 3
    /\ DOMAIN profiles = {call.user_id}

\* the returned snapshot shows the scores, confidences and counter of a row
SnapshotMatches(snapshot, row) ==
    /\ snapshot.sessions_analyzed = row.sessions_analyzed
    /\ snapshot.confidence.overall = row.overall_confidence
    /\ \A dim \in Dims :
          /\ snapshot.scores[dim] = row[ScoreKey(dim)]
          /\ snapshot.confidence[dim] = row[ConfidenceKey(dim)]

\* what a failed save leaves: the rows as they were, a row the load created
\* holding the defaults, and a non-empty result that counts one session more
\* than the profile the update computed from
FailedSaveIgnored(table, table2, c, r) ==
    /\ r # EmptyDict
    /\ r.sessions_analyzed = Get(Loaded(table, c), "sessions_analyzed", 0) + 1
    /\ \A o \in DOMAIN table : o \in DOMAIN table2 /\ table2[o] = table[o]
    /\ \A o \in DOMAIN table2 \ DOMAIN table : o = c.user_id /\ AllDefaults(table2[o])

\* the result of a saved update shows the stored row
SavedShowsStored(table2, c, r) ==
    (c.save_ok /\ c.user_id \in DOMAIN table2) => SnapshotMatches(r, table2[c.user_id])

C21_EachUpdateCountsOnce ==
    /\ [](\A o \in DOMAIN profiles :
            Len(profiles[o].evidence_log)
                = IF profiles[o].sessions_analyzed < LogCap
                  THEN profiles[o].sessions_analyzed ELSE LogCap)
    /\ [][IsUpdate(call') =>
            LET user_id == call'.user_id
                before == RowBefore(profiles, user_id)
            IN  /\ user_id \in DOMAIN profiles'
                /\ profiles'[user_id].sessions_analyzed = before.sessions_analyzed + 1
                /\ Len(profiles'[user_id].evidence_log)
                       = IF Len(before.evidence_log) < LogCap
                         THEN Len(before.evidence_log) + 1
                         ELSE LogCap
                /\ profiles'[user_id].evidence_log[Len(profiles'[user_id].evidence_log)].timestamp
                       = now']_vars

\* the average of the four stored confidences of a row
AverageConfidence(row) ==
    LET sum == RAdd(RAdd(row.extroversion_confidence, row.sensing_confidence),
                    RAdd(row.thinking_confidence, row.judging_confidence))
    IN  R(sum[1], 4 * sum[2])

\* C30: the stored overall_confidence of an owner never decreases from one
\* update to the next, is 0 for a profile without sessions, and is never above
\* the average of the four stored confidences.
C30_OverallConfidenceMonotone ==
    /\ [](\A o \in DOMAIN profiles :
            /\ RLe(profiles[o].overall_confidence, AverageConfidence(profiles[o]))
            /\ profiles[o].sessions_analyzed = 0 => profiles[o].overall_confidence = Zero)
    /\ [][\A o \in DOMAIN profiles \cap DOMAIN profiles' :
            RLe(profiles[o].overall_confidence, profiles'[o].overall_confidence)]_vars


\* the evidence score an update uses for a dimension, clamped to [0,1]
ClampedEvidenceScore(evidence, dim) ==
    FloatMax(FloatZero,
             FloatMin(FloatLiteral(1, 1),
                      Get(Get(evidence, dim, EmptyDict), "score", FloatLiteral(1, 2))))

\* x lies in the closed interval whose ends are a and b, in either order
FloatBetween(x, a, b) ==
    /\ ~FloatLt(x, FloatMin(a, b))
    /\ ~FloatLt(FloatMax(a, b), x)

\* C29: for every dimension and every update, the new score lies in the
\* closed interval between the current score and the evidence score clamped
\* to [0,1]: the update moves a score neither away from the evidence nor
\* past it.
C29_ScoreMovesTowardsEvidence ==
    [][call'.op = "_bayesian_update" =>
          \A dim \in Dims :
              FloatBetween(profiles'["A"][ScoreKey(dim)],
                           profiles["A"][ScoreKey(dim)],
                           ClampedEvidenceScore(call'.evidence, dim))]_vars


(***************************************************************************)
(* Update calls in flight together.  update_personality_from_session is    *)
(* taken in two steps: the load (extract_personality_evidence and          *)
(* get_or_create_personality_profile), and the rest of the body, which     *)
(* computes from the local variable `profile` and saves.  Nothing between  *)
(* the two steps touches the table, and any step of another call may come  *)
(* between them: the service holds no lock.  The select and the insert of  *)
(* get_or_create_personality_profile are taken as one step.                *)
(***************************************************************************)
MaxRaceCalls == 2      \* update calls per run of SpecRace

RaceSessions ==
    { [extractor |-> [ok |-> TRUE, evidence |-> EvExtro], summary |-> ShortSummary],
      [extractor |-> [ok |-> TRUE, evidence |-> EvSteady], summary |-> LongSummary] }

\* a call that computes from the row as it is stored when it saves
ProfileInHandReread(request, table) ==
    IF request.user_id \in DOMAIN table THEN table[request.user_id] ELSE request.profile

\* the local variable `profile`: the row as the call loaded it, whatever has
\* been saved since
ProfileInHand(request, table) == request.profile

\* first step of a call: the evidence and the profile are fetched
LoadProfile(user_id, session, load_ok) ==
    LET t == now + 1
        evidence == ExtractPersonalityEvidence(session.extractor)
        got == GetOrCreatePersonalityProfile(profiles, user_id, load_ok, nextUuid, t)
    IN  /\ profiles' = got.table
        /\ nextUuid' = IF got.created THEN nextUuid + 1 ELSE nextUuid
        /\ now' = t
        /\ requests' = Append(requests,
                              [user_id |-> user_id,
                               session |-> session,
                               evidence |-> evidence,
                               load_ok |-> load_ok,
                               profile |-> got.profile,
                               loaded_at |-> t,
                               saved_at |-> 0,
                               save_ok |-> FALSE])
        /\ call' = [op |-> "get_or_create_personality_profile",
                    user_id |-> user_id,
                    load_ok |-> load_ok]
        /\ ret' = got.profile
        /\ UNCHANGED <<collection, collection_ok>>

\* second step of call i: the update is computed, saved and returned
SaveProfile(i, save_ok) ==
    LET t == now + 1
        request == requests[i]
        updated_profile == UpdatedProfile(ProfileInHand(request, profiles),
                                          request.evidence, request.session.summary, t)
    IN  /\ request.saved_at = 0
        /\ profiles' = UpdatePersonalityProfile(profiles, request.user_id,
                                                updated_profile, save_ok, t)
        /\ now' = t
        /\ requests' = [requests EXCEPT ![i].saved_at = t, ![i].save_ok = save_ok]
        /\ call' = [op |-> "update_personality_profile",
                    user_id |-> request.user_id,
                    save_ok |-> save_ok]
        /\ ret' = Snapshot(updated_profile)
        /\ UNCHANGED <<collection, collection_ok, nextUuid>>

RaceLoad ==
    /\ Len(requests) < MaxRaceCalls
    /\ \E user_id \in Owners, session \in RaceSessions, load_ok \in BOOLEAN :
          LoadProfile(user_id, session, load_ok)

RaceSave ==
    \E i \in 1..Len(requests), save_ok \in BOOLEAN : SaveProfile(i, save_ok)

NextRace == RaceLoad \/ RaceSave

SpecRace == Init /\ [][NextRace]_vars

\* calls i and j are for the same owner, both loaded before either saved,
\* both loads and both saves worked, and j saved after i
BothLoadedBeforeEitherSaved(i, j) ==
    /\ i # j
    /\ requests[i].user_id = requests[j].user_id
    /\ requests[i].load_ok /\ requests[j].load_ok
    /\ requests[i].saved_at > 0 /\ requests[i].save_ok
    /\ requests[j].saved_at > requests[i].saved_at /\ requests[j].save_ok
    /\ requests[i].loaded_at < requests[i].saved_at
    /\ requests[j].loaded_at < requests[i].saved_at

\* no call has saved for the owner of call j since call j did
SavedLast(j) ==
    \A k \in 1..Len(requests) :
        (requests[k].user_id = requests[j].user_id /\ requests[k].save_ok)
            => requests[k].saved_at <= requests[j].saved_at

EntryTimes(evidence_log) == {evidence_log[n].timestamp : n \in 1..Len(evidence_log)}

\* C23: when two update calls for one owner both load the profile before
\* either saves, the stored profile afterwards reflects only the one that
\* saved last: sessions_analyzed is one more than what that call loaded (one
\* more, not two, than the row both loaded), its entry ends the evidence log
\* and the entry of the other call is not in the log.  No step of a call
\* waits for another call.
C23_LostUpdate ==
    \A i, j \in 1..Len(requests) :
        (BothLoadedBeforeEitherSaved(i, j) /\ SavedLast(j)) =>
            LET row == profiles[requests[j].user_id]
            IN  /\ row.sessions_analyzed = requests[j].profile.sessions_analyzed + 1
                /\ requests[i].profile = requests[j].profile
                       => row.sessions_analyzed = requests[i].profile.sessions_analyzed + 1
                /\ row.evidence_log # << >>
                /\ row.evidence_log[Len(row.evidence_log)].timestamp = requests[j].saved_at
                /\ requests[i].saved_at \notin EntryTimes(row.evidence_log)

\* two calls loaded the same row of one owner, then both saved: one session
\* is counted and one entry logged
C23_Witness ==
    \E i, j \in 1..Len(requests) :
        /\ BothLoadedBeforeEitherSaved(i, j)
        /\ SavedLast(j)
        /\ requests[i].profile = requests[j].profile
        /\ requests[i].profile.sessions_analyzed = 0
        /\ profiles[requests[j].user_id].sessions_analyzed = 1
        /\ Len(profiles[requests[j].user_id].evidence_log) = 1

====
